---- MODULE Spec2Model ----
(***************************************************************************)
(* Model of jugaadu_translator.py, a Streamlit script.  Every user         *)
(* interaction runs the script from the top: it loads the two JSON         *)
(* databases (lines 113-114) and then executes the branch of the selected  *)
(* app_mode.  A session is one browser session executing such runs; the    *)
(* JSON files and the audio directory are shared by all sessions.          *)
(*                                                                         *)
(* Strings typed by the user are sequences of one-character strings over   *)
(* Chars.  A Python dict is an insertion-ordered sequence of <<key,        *)
(* value>> pairs with unique keys.  None is the one-token sequence None.   *)
(* What widgets (text inputs, buttons, recorder, geolocation) and remote   *)
(* services return is chosen by the environment in the step that reads it. *)
(* The module-level names and the locals of a run keep their last values   *)
(* while the session is idle, so that a state shows what the last run did. *)
(***************************************************************************)
EXTENDS Integers, Sequences, FiniteSets, TLC

\* ---------------------------------------------------------------- bounds
MaxLen == 2        \* longest local phrase or query typed into a text_input
MaxStdLen == 1     \* longest Standard English equivalent typed
MaxRuns == 2       \* script runs (user interactions) explored
MaxClock == 2      \* distinct wall-clock seconds explored

Sessions == {1, 2}
OneSession == {1}

\* ------------------------------------------------------- Python strings
Chars == {"a", "A", " "}
Whitespace == {" ", "\n"}
None == <<"None">>

StrOver(alphabet, n) == UNION {[1..k -> alphabet] : k \in 0..n}
TypedText == StrOver(Chars, MaxLen)
TypedStandard == StrOver(Chars, MaxStdLen)

\* bool(x) of a str-or-None value: None and "" are falsy.
Truthy(x) == x # None /\ x # <<>>

\* bool(x) of a value modelled as a tag: None, b"" and 0.0 are falsy.
TruthyTag(x) == x \notin {"None", "", "0.0"}

LowerChar(c) == IF c = "A" THEN "a" ELSE c
\* str.lower()
lower(s) == [i \in 1..Len(s) |-> LowerChar(s[i])]

\* The summarization prompt's labels are single symbols of a response; a
\* label carries its trailing blank, which str.strip() removes when the
\* label ends the string.
TitleLabel == "Title: "
DescriptionLabel == "Description: "
RTrimSymbol(c) ==
    IF c = TitleLabel THEN "Title:"
    ELSE IF c = DescriptionLabel THEN "Description:" ELSE c

RECURSIVE lstrip(_)
lstrip(s) == IF s # <<>> /\ Head(s) \in Whitespace THEN lstrip(Tail(s)) ELSE s
RECURSIVE rstrip(_)
rstrip(s) ==
    IF s = <<>> THEN s
    ELSE IF s[Len(s)] \in Whitespace THEN rstrip(SubSeq(s, 1, Len(s) - 1))
    ELSE [s EXCEPT ![Len(s)] = RTrimSymbol(s[Len(s)])]
\* str.strip()
strip(s) == rstrip(lstrip(s))

\* --------------------------------------------------------- Python dicts
EmptyDict == <<>>
Keys(d) == {d[i][1] : i \in 1..Len(d)}
IndexOf(d, k) == CHOOSE i \in 1..Len(d) : d[i][1] = k
\* d.get(k, default)
DictGet(d, k, default) == IF k \in Keys(d) THEN d[IndexOf(d, k)][2] ELSE default
\* d[k] = v : an existing key keeps its position, a new key goes last.
DictSet(d, k, v) ==
    IF k \in Keys(d)
    THEN [d EXCEPT ![IndexOf(d, k)] = <<k, v>>]
    ELSE Append(d, <<k, v>>)

\* ---------------------------------------------------------- JSON files
\* exists: os.path.exists; readable: open() and read() succeed (the bytes
\* decode as UTF-8); valid: the text parses as JSON.
NoFile ==
    [exists |-> FALSE, readable |-> FALSE, valid |-> FALSE, data |-> EmptyDict]
CorruptFile ==
    [exists |-> TRUE, readable |-> TRUE, valid |-> FALSE, data |-> EmptyDict]
UnreadableFile ==
    [exists |-> TRUE, readable |-> FALSE, valid |-> FALSE, data |-> EmptyDict]

\* Line 43 catches json.JSONDecodeError and FileNotFoundError only: the
\* UnicodeDecodeError (or PermissionError) of an unreadable file leaves
\* load_database as an uncaught exception.
load_raises(file) == file.exists /\ ~file.readable

\* Mutant: a missing file is seeded with a starter phrase.
load_database_seeding(file) ==
    IF ~file.exists THEN <<<<<<"a">>, <<"A">>>>>>
    ELSE IF file.valid THEN file.data
    ELSE EmptyDict

\* The value load_database returns when it returns.
load_database(file) ==
    IF ~file.exists THEN EmptyDict
    ELSE IF file.valid THEN file.data
    ELSE EmptyDict

\* Mutant: the write is skipped.
save_database_skipped(data, old) == old

\* Mutant: the entries of the file that data lacks are kept (a merge).
save_database_merging(data, old) ==
    [exists |-> TRUE, readable |-> TRUE, valid |-> TRUE,
     data |-> data \o SelectSeq(old.data, LAMBDA e : e[1] \notin Keys(data))]

\* Content of file_path after save_database(data, file_path): open(..., 'w')
\* truncates, json.dump writes the whole of data.
save_database(data, old) ==
    [exists |-> TRUE, readable |-> TRUE, valid |-> TRUE, data |-> data]

\* ------------------------------------------------------------ the state
VARIABLES
    pc,                 \* per session: position in the current script run
    app_mode,           \* per session: the sidebar mode of the current run
    phrases_db,         \* per session: module-level dict (line 113)
    contributions_db,   \* per session: module-level dict (line 114)
    local,              \* per session: local variables of the run
    out,                \* per session: messages rendered by the run
    phrases_file,       \* DB_FILE
    contributions_file, \* CONTRIBUTIONS_FILE
    audio_dir,          \* files in AUDIO_DIR: path -> bytes
    now,                \* the wall clock, in seconds
    runs                \* script runs started so far

vars == <<pc, app_mode, phrases_db, contributions_db, local, out,
          phrases_file, contributions_file, audio_dir, now, runs>>

NoLocation == [isNone |-> TRUE, latitude |-> "None", longitude |-> "None"]
NoLocals ==
    [local_key |-> None, english_value |-> None,
     direction |-> "none", user_input |-> None, result |-> None,
     api_key |-> "None", audio_bytes |-> "None", stt |-> None,
     transcribed_text |-> None, parts |-> 0, title |-> None,
     description |-> None, location |-> NoLocation, timestamp |-> "None",
     audio_filepath |-> <<>>, remote_rows |-> <<>>, merge_ok |-> FALSE]

Init ==
    /\ pc = [s \in Sessions |-> "idle"]
    /\ app_mode = [s \in Sessions |-> "none"]
    /\ phrases_db = [s \in Sessions |-> EmptyDict]
    /\ contributions_db = [s \in Sessions |-> EmptyDict]
    /\ local = [s \in Sessions |-> NoLocals]
    /\ out = [s \in Sessions |-> <<>>]
    /\ phrases_file \in {NoFile, CorruptFile, UnreadableFile}
    /\ contributions_file \in {NoFile, CorruptFile, UnreadableFile}
    /\ audio_dir = <<>>
    /\ now = 1
    /\ runs = 0

\* -------------------------------------------------------- script start
UncaughtException == "exception: load_database"

\* Lines 113-114: a user interaction reruns the script, which reloads both
\* databases from their files; an exception of load_database ends the run
\* with the traceback on screen.
StartRun(s) ==
    /\ pc[s] = "idle"
    /\ runs < MaxRuns
    /\ runs' = runs + 1
    /\ phrases_db' = [phrases_db EXCEPT ![s] =
           IF load_raises(phrases_file) THEN EmptyDict
           ELSE load_database(phrases_file)]
    /\ contributions_db' = [contributions_db EXCEPT ![s] =
           IF load_raises(phrases_file) \/ load_raises(contributions_file)
           THEN EmptyDict
           ELSE load_database(contributions_file)]
    /\ IF load_raises(phrases_file) \/ load_raises(contributions_file)
       THEN /\ pc' = [pc EXCEPT ![s] = "idle"]
            /\ out' = [out EXCEPT ![s] = <<UncaughtException>>]
       ELSE /\ pc' = [pc EXCEPT ![s] = "main"]
            /\ out' = [out EXCEPT ![s] = <<>>]
    /\ local' = [local EXCEPT ![s] = NoLocals]
    /\ app_mode' = [app_mode EXCEPT ![s] = "none"]
    /\ UNCHANGED <<phrases_file, contributions_file, audio_dir, now>>

\* ------------------------------------------------- Mode 1: translation
Forward == "Local Dialect -> Standard English"
Reverse == "Standard English -> Local Dialect"
Directions == {Forward, Reverse}
NotFoundForward == <<"Sorry, I don't know that one yet!">>
NotFoundReverse == <<"Sorry, no local equivalent found.">>

\* Mutant: the first item with a lowercased value keeps its index entry.
RECURSIVE english_to_local_db_first_wins(_)
english_to_local_db_first_wins(d) ==
    IF d = <<>> THEN EmptyDict
    ELSE LET last == d[Len(d)]
             rest == english_to_local_db_first_wins(SubSeq(d, 1, Len(d) - 1))
         IN  IF lower(last[2]) \in Keys(rest) THEN rest
             ELSE DictSet(rest, lower(last[2]), last[1])

RECURSIVE english_to_local_db(_)
\* {v.lower(): k for k, v in phrases_db.items()}: items in dict order, a
\* later item with the same lowercased value replaces the earlier one.
english_to_local_db(d) ==
    IF d = <<>> THEN EmptyDict
    ELSE LET last == d[Len(d)]
         IN  DictSet(english_to_local_db(SubSeq(d, 1, Len(d) - 1)),
                     lower(last[2]), last[1])

source_db(db, direction) ==
    IF direction = Forward THEN db ELSE english_to_local_db(db)
not_found_message(direction) ==
    IF direction = Forward THEN NotFoundForward ELSE NotFoundReverse

\* Mutant: a key that merely starts with the query matches.
translate_prefix(db, direction, user_input) ==
    IF Truthy(user_input)
    THEN LET src == source_db(db, direction)
             query == lower(strip(user_input))
             hits == {i \in 1..Len(src) :
                        /\ Len(src[i][1]) >= Len(query)
                        /\ SubSeq(src[i][1], 1, Len(query)) = query}
         IN  IF hits = {} THEN not_found_message(direction)
             ELSE src[CHOOSE i \in hits : \A j \in hits : i <= j][2]
    ELSE None

\* Lines 152-154: the text shown for a click on Translate; None when the
\* input is empty (only the warning is shown).
translate(db, direction, user_input) ==
    IF Truthy(user_input)
    THEN DictGet(source_db(db, direction), lower(strip(user_input)),
                 not_found_message(direction))
    ELSE None

\* gTTS either yields audio bytes or raises (caught, returns None).
text_to_speech(text, tts_ok) == IF tts_ok THEN "mp3" ELSE "None"

\* Lines 131-165 without their (absent) effect on the databases.
TranslateRun(s) ==
    /\ pc[s] = "main"
    /\ \E clicked \in BOOLEAN :
         IF clicked
         THEN \E direction \in Directions, user_input \in TypedText,
                 tts_ok \in BOOLEAN :
                LET result == translate(phrases_db[s], direction, user_input)
                IN  /\ local' = [local EXCEPT ![s].direction = direction,
                                              ![s].user_input = user_input,
                                              ![s].result = result]
                    /\ out' = [out EXCEPT ![s] =
                          IF ~Truthy(user_input)
                          THEN <<"warning: enter a phrase">>
                          ELSE IF result = not_found_message(direction)
                               THEN <<"translation">>
                          ELSE IF text_to_speech(result, tts_ok) # "None"
                               THEN <<"translation", "audio">>
                          ELSE <<"translation", "error: text-to-speech">>]
         ELSE UNCHANGED <<local, out>>
    /\ app_mode' = [app_mode EXCEPT ![s] = "Translate a Phrase"]
    /\ pc' = [pc EXCEPT ![s] = "idle"]
    /\ UNCHANGED <<contributions_db, contributions_file, audio_dir, now, runs>>

\* Mutant: the reverse index is bound to the name phrases_db.
Translate_rebinds(s) ==
    /\ TranslateRun(s)
    /\ phrases_db' = [phrases_db EXCEPT ![s] =
           IF local'[s].direction = Reverse
           THEN english_to_local_db(@) ELSE @]
    /\ UNCHANGED phrases_file

\* Lines 131-165: the reverse index is a new dict (line 145); nothing is
\* assigned to phrases_db and save_database is not called.
Translate(s) ==
    /\ TranslateRun(s)
    /\ UNCHANGED <<phrases_db, phrases_file>>

\* ------------------------------------------- Mode 2: typed contribution
\* Lines 178-183 and 188-189: validation, normalisation, dict update.
ContributeSubmit(s) ==
    /\ pc[s] = "main"
    /\ app_mode' = [app_mode EXCEPT ![s] = "Contribute a New Phrase"]
    /\ \E submitted \in BOOLEAN :
         IF submitted
         THEN \E local_phrase \in TypedText,
                 standard_english_phrase \in TypedStandard :
                IF Truthy(local_phrase) /\ Truthy(standard_english_phrase)
                THEN LET local_key == lower(strip(local_phrase))
                         english_value == strip(standard_english_phrase)
                     IN  /\ phrases_db' = [phrases_db EXCEPT ![s] =
                                DictSet(phrases_db[s], local_key, english_value)]
                         /\ local' = [local EXCEPT
                                ![s].local_key = local_key,
                                ![s].english_value = english_value]
                         /\ pc' = [pc EXCEPT ![s] = "save_phrases"]
                         /\ UNCHANGED out
                ELSE /\ out' = [out EXCEPT ![s] =
                                  <<"error: fill in both fields">>]
                     /\ pc' = [pc EXCEPT ![s] = "idle"]
                     /\ UNCHANGED <<phrases_db, local>>
         ELSE /\ pc' = [pc EXCEPT ![s] = "idle"]
              /\ UNCHANGED <<phrases_db, local, out>>
    /\ UNCHANGED <<contributions_db, phrases_file, contributions_file,
                   audio_dir, now, runs>>

\* Line 184: save_database(phrases_db, DB_FILE).
SavePhrases(s) ==
    /\ pc[s] = "save_phrases"
    /\ phrases_file' = save_database(phrases_db[s], phrases_file)
    /\ pc' = [pc EXCEPT ![s] = "thank"]
    /\ UNCHANGED <<app_mode, phrases_db, contributions_db, local, out,
                   contributions_file, audio_dir, now, runs>>

\* Lines 186-187: st.success("Thank you! ...").
ReportSuccess(s) ==
    /\ pc[s] = "thank"
    /\ out' = [out EXCEPT ![s] = <<"success: thank you">>]
    /\ pc' = [pc EXCEPT ![s] = "idle"]
    /\ UNCHANGED <<app_mode, phrases_db, contributions_db, local,
                   phrases_file, contributions_file, audio_dir, now, runs>>

\* ------------------------------------------ Mode 3: voice contribution
AUDIO_DIR == "audio_contributions"
TempPath == <<AUDIO_DIR, "temp_recording", ".wav">>
\* os.path.join(AUDIO_DIR, f"{timestamp}.wav")
AudioPath(timestamp) == <<AUDIO_DIR, timestamp, ".wav">>

\* datetime.now().strftime("%Y%m%d_%H%M%S") at second t of the clock.
Stamps == <<"20260101_000001", "20260101_000002", "20260101_000003",
            "20260101_000004", "20260101_000005">>
strftime(t) == Stamps[t]

\* open(path, "wb").write(bytes): creates or overwrites the file.
WriteFile(dir, path, bytes) ==
    [p \in DOMAIN dir \cup {path} |-> IF p = path THEN bytes ELSE dir[p]]
\* os.remove(path)
RemoveFile(dir, path) == [p \in DOMAIN dir \ {path} |-> dir[p]]

\* What the environment hands to a run.
ApiKeys == {"None", "sk"}
AudioInputs == {"None", "", "wav1", "wav2"}
\* Whisper's answer: None stands for a raised exception.
Transcripts == {None, <<>>, <<"a">>}
\* The chat completion's content: None stands for a raised exception.
Responses ==
    {None,
     <<>>,
     <<"a">>,
     <<TitleLabel, "a">>,
     <<"a", "\n">>,
     <<"a", "\n", "a">>,
     <<"a", "\n", "\n", "a">>,
     <<TitleLabel, "\n", "a">>,
     <<"a", "\n", DescriptionLabel>>,
     <<"\n", TitleLabel, "a", "\n", DescriptionLabel, "a", "a", "\n">>,
     <<TitleLabel, "a", "\n", DescriptionLabel, "a", "\n", "a">>}
Locations ==
    {NoLocation,
     [isNone |-> FALSE, latitude |-> "None", longitude |-> "None"],
     [isNone |-> FALSE, latitude |-> "0.0", longitude |-> "77.5"],
     [isNone |-> FALSE, latitude |-> "12.9", longitude |-> "77.5"]}

\* Lines 55-71: the returned text, None on a missing key or an exception.
transcribe_audio(api_key, stt) ==
    IF ~TruthyTag(api_key) THEN None
    ELSE IF stt = None THEN None
    ELSE stt

\* Lines 60-67: the temporary file is written once the key check passed
\* and removed only when the transcription call returned.
TempAfterTranscribe(dir, api_key, audio_bytes, stt) ==
    IF ~TruthyTag(api_key) THEN dir
    ELSE IF stt = None THEN WriteFile(dir, TempPath, audio_bytes)
    ELSE RemoveFile(WriteFile(dir, TempPath, audio_bytes), TempPath)

\* s.replace(label, "")
replace(s, label) == SelectSeq(s, LAMBDA c : c # label)
\* s.split("\n")[0]
FirstLine(s) ==
    IF \E i \in 1..Len(s) : s[i] = "\n"
    THEN SubSeq(s, 1, (CHOOSE i \in 1..Len(s) :
                         s[i] = "\n" /\ \A j \in 1..(i - 1) : s[j] # "\n") - 1)
    ELSE s
\* what follows the first "\n" of s
AfterFirstLine(s) == SubSeq(s, Len(FirstLine(s)) + 2, Len(s))
\* len(s.split("\n"))
NumParts(s) == 1 + Cardinality({i \in 1..Len(s) : s[i] = "\n"})

\* Mutant: a failed summarization yields placeholders instead of None.
summarize_with_placeholders(api_key, response) ==
    IF ~TruthyTag(api_key) \/ response = None
    THEN <<<<"Untitled">>, <<"No description">>>>
    ELSE LET summary == strip(response)
         IN  <<strip(replace(FirstLine(summary), TitleLabel)),
               IF NumParts(summary) > 1
               THEN strip(replace(FirstLine(AfterFirstLine(summary)),
                                  DescriptionLabel))
               ELSE <<>>>>

\* Lines 75-94: <<title, description>>.
summarize_text_for_title_desc(api_key, response) ==
    IF ~TruthyTag(api_key) THEN <<None, None>>
    ELSE IF response = None THEN <<None, None>>
    ELSE LET summary == strip(response)
             title == strip(replace(FirstLine(summary), TitleLabel))
             description ==
                 IF NumParts(summary) > 1
                 THEN strip(replace(FirstLine(AfterFirstLine(summary)),
                                    DescriptionLabel))
                 ELSE <<>>
         IN  <<title, description>>

\* Mutant: the location check is dropped.
HasLocation_unchecked(location) == TRUE

\* Line 226: location and location.get('latitude')
HasLocation(location) == ~location.isNone /\ TruthyTag(location.latitude)

\* Lines 196-207: the recorder widget and the Process Recording button.
RecordStart(s) ==
    /\ pc[s] = "main"
    /\ app_mode' = [app_mode EXCEPT ![s] = "Record and Contribute"]
    /\ \E api_key \in ApiKeys, audio_bytes \in AudioInputs,
          process \in BOOLEAN :
         /\ local' = [local EXCEPT ![s].api_key = api_key,
                                   ![s].audio_bytes = audio_bytes]
         /\ pc' = [pc EXCEPT ![s] =
               IF TruthyTag(audio_bytes) /\ process
               THEN "transcribing" ELSE "idle"]
    /\ UNCHANGED <<phrases_db, contributions_db, out, phrases_file,
                   contributions_file, audio_dir, now, runs>>

\* Lines 208-213 and 257-258.
Transcribe(s) ==
    /\ pc[s] = "transcribing"
    /\ \E stt \in Transcripts :
         LET transcribed_text == transcribe_audio(local[s].api_key, stt)
         IN  /\ audio_dir' = TempAfterTranscribe(audio_dir, local[s].api_key,
                                                 local[s].audio_bytes, stt)
             /\ local' = [local EXCEPT ![s].stt = stt,
                              ![s].transcribed_text = transcribed_text]
             /\ IF Truthy(transcribed_text)
                THEN /\ pc' = [pc EXCEPT ![s] = "summarizing"]
                     /\ out' = [out EXCEPT ![s] = <<"transcription">>]
                ELSE /\ pc' = [pc EXCEPT ![s] = "idle"]
                     /\ out' = [out EXCEPT ![s] =
                                   <<"error: transcription failed">>]
    /\ UNCHANGED <<app_mode, phrases_db, contributions_db, phrases_file,
                   contributions_file, now, runs>>

\* Lines 215-222 and 255-256.
Summarize(s) ==
    /\ pc[s] = "summarizing"
    /\ \E response \in Responses :
         LET td == summarize_text_for_title_desc(local[s].api_key, response)
         IN  /\ local' = [local EXCEPT
                      ![s].parts = IF response = None THEN 0
                                   ELSE NumParts(strip(response)),
                      ![s].title = td[1], ![s].description = td[2]]
             /\ IF Truthy(td[1]) /\ Truthy(td[2])
                THEN /\ pc' = [pc EXCEPT ![s] = "locating"]
                     /\ out' = [out EXCEPT ![s] =
                                   Append(@, "title and description")]
                ELSE /\ pc' = [pc EXCEPT ![s] = "idle"]
                     /\ out' = [out EXCEPT ![s] = Append(@,
                           "error: could not generate a title and description")]
    /\ UNCHANGED <<app_mode, phrases_db, contributions_db, phrases_file,
                   contributions_file, audio_dir, now, runs>>

\* Lines 224-229 and 253-254: the geolocation widget and the Save
\* Contribution button, which is rendered only when a location was captured.
Locate(s) ==
    /\ pc[s] = "locating"
    /\ \E location \in Locations, save \in BOOLEAN :
         /\ local' = [local EXCEPT ![s].location = location]
         /\ IF HasLocation(location)
            THEN /\ out' = [out EXCEPT ![s] = Append(@, "location captured")]
                 /\ pc' = [pc EXCEPT ![s] =
                              IF save THEN "write_audio" ELSE "idle"]
            ELSE /\ out' = [out EXCEPT ![s] =
                       Append(@, "warning: could not retrieve location")]
                 /\ pc' = [pc EXCEPT ![s] = "idle"]
    /\ UNCHANGED <<app_mode, phrases_db, contributions_db, phrases_file,
                   contributions_file, audio_dir, now, runs>>

\* Lines 231-235.
WriteAudio(s) ==
    /\ pc[s] = "write_audio"
    /\ LET timestamp == strftime(now)
           audio_filepath == AudioPath(timestamp)
       IN  /\ audio_dir' = WriteFile(audio_dir, audio_filepath,
                                     local[s].audio_bytes)
           /\ local' = [local EXCEPT ![s].timestamp = timestamp,
                            ![s].audio_filepath = audio_filepath]
    /\ pc' = [pc EXCEPT ![s] = "append_record"]
    /\ UNCHANGED <<app_mode, phrases_db, contributions_db, out, phrases_file,
                   contributions_file, now, runs>>

\* Mutant: every record is stored under the first identifier.
contribution_id_fixed(db) == 0 * Len(db) + 1

\* Line 238: the number n of the identifier f"contribution_{n}".
contribution_id(db) == Len(db) + 1

\* Mutant: the record points at the transcription's temporary file.
ContributionRecord_temp_path(l) ==
    [title |-> l.title,
     description |-> l.description,
     transcribed_text |-> l.transcribed_text,
     geolocation |-> [latitude |-> l.location.latitude,
                      longitude |-> l.location.longitude],
     audio_file |-> TempPath,
     timestamp |-> l.timestamp]

\* Lines 239-249.
ContributionRecord(l) ==
    [title |-> l.title,
     description |-> l.description,
     transcribed_text |-> l.transcribed_text,
     geolocation |-> [latitude |-> l.location.latitude,
                      longitude |-> l.location.longitude],
     audio_file |-> l.audio_filepath,
     timestamp |-> l.timestamp]

AppendRecord(s) ==
    /\ pc[s] = "append_record"
    /\ contributions_db' = [contributions_db EXCEPT ![s] =
           DictSet(@, contribution_id(@), ContributionRecord(local[s]))]
    /\ pc' = [pc EXCEPT ![s] = "save_contributions"]
    /\ UNCHANGED <<app_mode, phrases_db, local, out, phrases_file,
                   contributions_file, audio_dir, now, runs>>

\* Line 250: save_database(contributions_db, CONTRIBUTIONS_FILE).
SaveContributions(s) ==
    /\ pc[s] = "save_contributions"
    /\ contributions_file' =
           save_database(contributions_db[s], contributions_file)
    /\ pc' = [pc EXCEPT ![s] = "saved"]
    /\ UNCHANGED <<app_mode, phrases_db, contributions_db, local, out,
                   phrases_file, audio_dir, now, runs>>

\* Lines 251-252: st.success("Your contribution has been saved!").
ReportSaved(s) ==
    /\ pc[s] = "saved"
    /\ out' = [out EXCEPT ![s] = Append(@, "success: contribution saved")]
    /\ pc' = [pc EXCEPT ![s] = "idle"]
    /\ UNCHANGED <<app_mode, phrases_db, contributions_db, local,
                   phrases_file, contributions_file, audio_dir, now, runs>>

\* A second of wall-clock time passes.
Tick ==
    /\ now < MaxClock
    /\ now' = now + 1
    /\ UNCHANGED <<pc, app_mode, phrases_db, contributions_db, local, out,
                   phrases_file, contributions_file, audio_dir, runs>>

\* ---------------------------------------------------- Remote Reconciler
\* pull_and_merge as section 4.3 of the specification describes it; the
\* source file holds no reconciler.
MaxRows == 2

\* A RemoteRow, reduced to the two fields the merge reads:
\* <<local phrase, standard translation>>.
RemoteRows ==
    {<<k, v>> : k \in StrOver({"a", "A"}, 1) \ {<<>>},
               v \in StrOver({"a", "A"}, 1) \ {<<>>}}
RemoteLedgers == UNION {[1..n -> RemoteRows] : n \in 0..MaxRows}

\* Mutant: a remote row replaces the local entry of its key.
RECURSIVE MergeRows_overwriting(_, _)
MergeRows_overwriting(local_mapping, rows) ==
    IF rows = <<>> THEN local_mapping
    ELSE MergeRows_overwriting(
             DictSet(local_mapping, lower(Head(rows)[1]), Head(rows)[2]),
             Tail(rows))

\* "for each row, if its local-phrase key (lowercase) is absent from
\* local_mapping, inserts it (value = that row's standard translation)".
RECURSIVE MergeRows(_, _)
MergeRows(local_mapping, rows) ==
    IF rows = <<>> THEN local_mapping
    ELSE LET key == lower(Head(rows)[1])
         IN  MergeRows(IF key \in Keys(local_mapping)
                       THEN local_mapping
                       ELSE DictSet(local_mapping, key, Head(rows)[2]),
                       Tail(rows))

\* pull_and_merge(local_mapping): the fetch delivers the first `merged` rows
\* of the ledger; a transport or parsing failure ends it before the last
\* row. A successful merge with an insertion persists the mapping; a failed
\* one persists nothing and keeps the rows already merged in memory.
PullAndMerge(s) ==
    /\ pc[s] = "main"
    /\ app_mode' = [app_mode EXCEPT ![s] = "Sync with Remote"]
    /\ \E rows \in RemoteLedgers, merged \in 0..MaxRows, ok \in BOOLEAN :
         /\ merged <= Len(rows)
         /\ ok => merged = Len(rows)
         /\ LET result == MergeRows(phrases_db[s], SubSeq(rows, 1, merged))
            IN  /\ phrases_db' = [phrases_db EXCEPT ![s] = result]
                /\ phrases_file' =
                       IF ok /\ result # phrases_db[s]
                       THEN save_database(result, phrases_file)
                       ELSE phrases_file
         /\ local' = [local EXCEPT ![s].remote_rows = rows,
                                   ![s].merge_ok = ok]
         /\ out' = [out EXCEPT ![s] =
                       IF ok THEN <<"merge: success">>
                       ELSE <<"merge: failure">>]
    /\ pc' = [pc EXCEPT ![s] = "idle"]
    /\ UNCHANGED <<contributions_db, contributions_file, audio_dir, now,
                   runs>>

\* ------------------------------------------------------ specifications
PhraseStep(s) ==
    \/ StartRun(s)
    \/ Translate(s)
    \/ ContributeSubmit(s)
    \/ SavePhrases(s)
    \/ ReportSuccess(s)

VoiceStep(s) ==
    \/ RecordStart(s)
    \/ Transcribe(s)
    \/ Summarize(s)
    \/ Locate(s)
    \/ WriteAudio(s)
    \/ AppendRecord(s)
    \/ SaveContributions(s)
    \/ ReportSaved(s)

\* One session using the Translate and Contribute modes.
Next == \E s \in OneSession : PhraseStep(s)
Spec == Init /\ [][Next]_vars

\* One session using the Record and Contribute mode.
NextVoice ==
    \/ \E s \in OneSession : StartRun(s)
    \/ \E s \in OneSession : VoiceStep(s)
    \/ Tick
SpecVoice == Init /\ [][NextVoice]_vars

\* The same, with the script running to its end once Save Contribution was
\* clicked: lines 231-252 are straight-line code.
SpecVoiceLive ==
    /\ SpecVoice
    /\ \A s \in OneSession :
          WF_vars(WriteAudio(s) \/ AppendRecord(s)
                    \/ SaveContributions(s) \/ ReportSaved(s))

\* Two sessions with no coordination (two browser tabs on one
\* deployment), each handling one user interaction.
NextRace ==
    \E s \in Sessions :
        \/ app_mode[s] = "none" /\ StartRun(s)
        \/ Translate(s)
        \/ ContributeSubmit(s)
        \/ SavePhrases(s)
        \/ ReportSuccess(s)
SpecRace == Init /\ [][NextRace]_vars

\* The same session on a deployment whose phrase file already holds one
\* accepted contribution (lines 180-184 for the fields "a" and "A").
SeedFile ==
    save_database(DictSet(EmptyDict, lower(strip(<<"a">>)), strip(<<"A">>)),
                  NoFile)
InitSeeded ==
    /\ pc = [s \in Sessions |-> "idle"]
    /\ app_mode = [s \in Sessions |-> "none"]
    /\ phrases_db = [s \in Sessions |-> EmptyDict]
    /\ contributions_db = [s \in Sessions |-> EmptyDict]
    /\ local = [s \in Sessions |-> NoLocals]
    /\ out = [s \in Sessions |-> <<>>]
    /\ phrases_file = SeedFile
    /\ contributions_file = NoFile
    /\ audio_dir = <<>>
    /\ now = 1
    /\ runs = 0
SpecSeeded == InitSeeded /\ [][Next]_vars

\* One session that contributes typed phrases and reconciles with the
\* remote ledger.
NextMerge ==
    \E s \in OneSession :
        \/ StartRun(s)
        \/ ContributeSubmit(s)
        \/ SavePhrases(s)
        \/ ReportSuccess(s)
        \/ PullAndMerge(s)
SpecMerge == Init /\ [][NextMerge]_vars

\* ================================================================ claims
Range(f) == {f[i] : i \in DOMAIN f}
Shown(s, message) == message \in Range(out[s])
ThankYou == "success: thank you"
ContributionSaved == "success: contribution saved"
\* The dicts a session or the disk holds.
PhraseDicts == {phrases_db[s] : s \in Sessions} \cup {phrases_file.data}

\* C1 (as claimed): for every entry (k, v) of a phrase mapping, a forward
\* query for k returns v, and a reverse query for v returns k unless another
\* entry's value lowercases to the same string.  Stated over every mapping a
\* session holds or the file stores; the code violates it for the entry with
\* the empty key (or value) that C9's blank contribution stores.
C1_RoundTrip ==
    \A d \in PhraseDicts : \A i \in 1..Len(d) :
        LET k == d[i][1]
            v == d[i][2]
        IN  /\ translate(d, Forward, k) = v
            /\ (\A j \in 1..Len(d) : j # i => lower(d[j][2]) # lower(v))
                   => translate(d, Reverse, v) = k

\* C1, the part the code keeps: the round trip holds for every entry whose
\* key and value are not empty.
C1_RoundTripNonEmpty ==
    \A d \in PhraseDicts : \A i \in 1..Len(d) :
        LET k == d[i][1]
            v == d[i][2]
        IN  (k # <<>> /\ v # <<>>) =>
            /\ translate(d, Forward, k) = v
            /\ (\A j \in 1..Len(d) : j # i => lower(d[j][2]) # lower(v))
                   => translate(d, Reverse, v) = k

\* C2 (as claimed): once a typed contribution was accepted and saved, the
\* mapping holds its value under its key, no two keys differ only by case
\* or surrounding whitespace, and a forward query with any text that
\* normalises to the key (a case or outer-whitespace variant of the local
\* phrase) returns the value.  The code violates the last part for the
\* blank phrase of C9, whose variant "" is answered with a warning.
C2_KeyNormalization ==
    \A s \in Sessions : pc[s] = "thank" =>
        LET d == phrases_db[s]
        IN  /\ DictGet(d, local[s].local_key, None) = local[s].english_value
            /\ \A k1, k2 \in Keys(d) :
                   lower(strip(k1)) = lower(strip(k2)) => k1 = k2
            /\ \A x \in TypedText :
                   lower(strip(x)) = local[s].local_key
                       => translate(d, Forward, x) = local[s].english_value

\* C3: whenever the thank-you message of a typed contribution is on screen,
\* the phrase file is a valid full copy of the session's mapping and holds
\* the contributed value under the contributed key.
C3_DurableBeforeSuccess ==
    \A s \in Sessions : Shown(s, ThankYou) =>
        /\ phrases_file.exists /\ phrases_file.valid
        /\ phrases_file.data = phrases_db[s]
        /\ local[s].local_key \in Keys(phrases_file.data)
        /\ DictGet(phrases_file.data, local[s].local_key, None)
               = local[s].english_value

\* C3 witness: success is shown for a second, distinct contribution.
C3_Witness ==
    \E s \in Sessions : Shown(s, ThankYou) /\ Len(phrases_file.data) = 2

\* What C4 calls success of the two services for the attempt in hand.
TranscriptionSucceeded(l) == TruthyTag(l.api_key) /\ l.stt # None
SummarizationSucceeded(l) == TruthyTag(l.api_key) /\ l.parts > 0
\* A recording (not the transcription's temporary file) written by a step.
RecordingWritten ==
    \E p \in DOMAIN audio_dir' \ {TempPath} :
        p \notin DOMAIN audio_dir \/ audio_dir'[p] # audio_dir[p]

\* C4: a step of a voice attempt that appends a record, rewrites the
\* contribution file or writes a recording happens only when transcription
\* and summarization of that attempt both succeeded; a step in which
\* transcription or summarization ends the attempt shows an error and
\* leaves the contribution log, its file and the recordings as they were.
C4_AllOrNothing ==
    [][\A s \in Sessions :
         /\ (pc[s] # "idle"
               /\ (\/ contributions_db'[s] # contributions_db[s]
                   \/ contributions_file' # contributions_file
                   \/ RecordingWritten))
              => (TranscriptionSucceeded(local[s])
                    /\ SummarizationSucceeded(local[s]))
         /\ (pc[s] \in {"transcribing", "summarizing"} /\ pc'[s] = "idle")
              => /\ contributions_db'[s] = contributions_db[s]
                 /\ contributions_file' = contributions_file
                 /\ ~RecordingWritten
                 /\ \/ Shown(s, "error: transcription failed")'
                    \/ Shown(s, "error: could not generate a title and description")'
      ]_vars

\* C4 witness: a record was appended and saved after both services
\* succeeded.
C4_Witness ==
    \E s \in Sessions :
        /\ Shown(s, ContributionSaved)
        /\ Len(contributions_file.data) >= 1
        /\ TranscriptionSucceeded(local[s])
        /\ SummarizationSucceeded(local[s])

\* The last record of a contribution log.
LastRecord(db) == db[Len(db)][2]

\* C5: once Save Contribution is clicked the run reaches the success
\* message; the step that appends adds exactly one record under a new
\* identifier and keeps the others; and when the success message is emitted
\* the recording's bytes are stored under the path named by the timestamp
\* and the contribution file holds the log, whose last record carries the
\* attempt's title, description, text, geolocation, path and timestamp.
C5_SavedTransition ==
    /\ [][\A s \in Sessions :
            /\ pc[s] = "append_record" /\ pc'[s] # pc[s] =>
                 /\ Len(contributions_db'[s]) = Len(contributions_db[s]) + 1
                 /\ SubSeq(contributions_db'[s], 1, Len(contributions_db[s]))
                        = contributions_db[s]
                 /\ contributions_db'[s][Len(contributions_db'[s])][1]
                        \notin Keys(contributions_db[s])
            /\ pc[s] = "saved" /\ pc'[s] # pc[s] =>
                 LET l == local[s]
                     r == LastRecord(contributions_db[s])
                 IN  /\ Shown(s, ContributionSaved)'
                     /\ l.timestamp \in Range(Stamps)
                     /\ l.audio_filepath = <<AUDIO_DIR, l.timestamp, ".wav">>
                     /\ l.audio_filepath \in DOMAIN audio_dir
                     /\ audio_dir[l.audio_filepath] = l.audio_bytes
                     /\ contributions_file.valid
                     /\ contributions_file.data = contributions_db[s]
                     /\ r.title = l.title /\ r.description = l.description
                     /\ r.transcribed_text = l.transcribed_text
                     /\ r.geolocation.latitude = l.location.latitude
                     /\ r.geolocation.longitude = l.location.longitude
                     /\ r.audio_file = l.audio_filepath
                     /\ r.timestamp = l.timestamp
         ]_vars
    /\ \A s \in OneSession :
           (pc[s] = "write_audio") ~> (pc[s] = "idle" /\ Shown(s, ContributionSaved))

\* C5 witness: a second contribution was saved, after an earlier one.
C5_Witness ==
    \E s \in Sessions :
        /\ Shown(s, ContributionSaved)
        /\ Len(contributions_file.data) = 2

\* C6 (as claimed): whenever transcription and summarization have succeeded
\* and the location is awaited, the attempt can proceed to saving with the
\* provider returning no coordinates.
C6_SavedWithoutLocation ==
    \A s \in OneSession :
        pc[s] = "locating" =>
            ENABLED (/\ Locate(s)
                     /\ local'[s].location.latitude = "None"
                     /\ pc'[s] = "write_audio")

\* C6 (amended): when the provider returns no coordinates (no location, or
\* a latitude that is missing or zero) the attempt ends with a warning and
\* writes nothing, and every record appended carries a latitude.
C6_LocationRequired ==
    [][\A s \in Sessions :
         /\ (pc[s] = "locating" /\ pc'[s] # pc[s]
               /\ (\/ local'[s].location.isNone
                   \/ local'[s].location.latitude \in {"None", "0.0"}))
              => /\ pc'[s] = "idle"
                 /\ Shown(s, "warning: could not retrieve location")'
                 /\ contributions_db'[s] = contributions_db[s]
                 /\ contributions_file' = contributions_file
                 /\ audio_dir' = audio_dir
         /\ (pc[s] = "append_record" /\ pc'[s] # pc[s])
              => LastRecord(contributions_db'[s]).geolocation.latitude
                     \notin {"None", "0.0"}
      ]_vars

\* C6 witness: an attempt with a title and a description was refused for
\* its missing location.
C6_Witness ==
    \E s \in Sessions :
        /\ pc[s] = "idle"
        /\ Shown(s, "warning: could not retrieve location")
        /\ Truthy(local[s].title) /\ Truthy(local[s].description)
        /\ ~local[s].location.isNone /\ local[s].location.latitude = "None"

\* C7 (as claimed): when the summarization service answers with a single
\* line that holds a title, the description is empty and the attempt is not
\* failed.
C7_SingleLineTolerated ==
    \A s \in Sessions :
        (local[s].parts = 1 /\ Truthy(local[s].title)) =>
            /\ local[s].description = <<>>
            /\ ~Shown(s, "error: could not generate a title and description")

\* C8: a run of the Translate mode, in either direction, hit or miss,
\* leaves the session's phrase mapping and the phrase file as they were.
C8_LookupReadOnly ==
    [][\A s \in Sessions :
         (pc[s] = "main" /\ app_mode'[s] = "Translate a Phrase")
             => /\ phrases_db'[s] = phrases_db[s]
                /\ phrases_file' = phrases_file
      ]_vars

\* C8 witness: a reverse query was answered from a mapping with entries.
C8_Witness ==
    \E s \in Sessions :
        /\ app_mode[s] = "Translate a Phrase"
        /\ local[s].direction = Reverse
        /\ Shown(s, "translation")
        /\ local[s].result # NotFoundReverse
        /\ Len(phrases_db[s]) >= 1

\* C9 (as claimed): no entry with an empty key or an empty value is ever
\* stored, in a session's mapping or in the phrase file.
C9_NoEmptyEntry ==
    \A d \in PhraseDicts : \A i \in 1..Len(d) :
        d[i][1] # <<>> /\ d[i][2] # <<>>

\* C9, the part the code keeps: a submission with an empty field is
\* rejected with an error and changes neither the mapping nor the file.
C9_EmptyFieldRejected ==
    [][\A s \in Sessions :
         (pc[s] = "main" /\ Shown(s, "error: fill in both fields")')
             => /\ phrases_db'[s] = phrases_db[s]
                /\ phrases_file' = phrases_file
      ]_vars

\* C10: a save takes no lock and merges nothing: it makes the phrase file
\* the saving session's mapping, so an entry another session stored after
\* this session loaded is gone.  The witness is the lost update itself.
C10_WholeFileRewrite ==
    [][\A s \in Sessions :
         (pc[s] = "save_phrases" /\ pc'[s] # pc[s])
             => /\ phrases_file'.data = phrases_db[s]
                /\ \A k \in Keys(phrases_file.data) \ Keys(phrases_db[s]) :
                       k \notin Keys(phrases_file'.data)
      ]_vars

\* C10 witness: both sessions report success for different keys and the
\* phrase file lacks one of the two entries.
C10_LostUpdate ==
    /\ \A s \in Sessions : pc[s] = "idle" /\ Shown(s, ThankYou)
    /\ local[1].local_key # local[2].local_key
    /\ \E s \in Sessions : local[s].local_key \notin Keys(phrases_file.data)

\* The translations stored for the normalised query q: the values under the
\* key q (forward), the keys whose value lowercases to q (reverse).
StoredAnswers(d, direction, q) ==
    IF direction = Forward
    THEN {d[i][2] : i \in {j \in 1..Len(d) : d[j][1] = q}}
    ELSE {d[i][1] : i \in {j \in 1..Len(d) : lower(d[j][2]) = q}}
\* A session whose last run answered a click on Translate.
Queried(s) ==
    /\ pc[s] = "idle" /\ app_mode[s] = "Translate a Phrase"
    /\ local[s].direction \in Directions
\* The result agrees with an exact lookup of the trimmed, lowercased input.
ExactAnswer(s) ==
    LET l == local[s]
        answers == StoredAnswers(phrases_db[s], l.direction,
                                 lower(strip(l.user_input)))
    IN  IF answers = {}
        THEN l.result = (IF l.direction = Forward THEN NotFoundForward
                         ELSE NotFoundReverse)
        ELSE l.result \in answers

\* C11 (as claimed): every query is answered by an exact lookup of its
\* normalised text: the direction's not-found message when that text is no
\* key of the forward mapping or reverse index, the stored translation
\* when it is.
C11_EveryQueryLookedUp == \A s \in Sessions : Queried(s) => ExactAnswer(s)

\* C11 (amended): every non-empty query is answered by such an exact
\* lookup; an empty input is not looked up and gets the warning.
C11_NotFoundSentinel ==
    \A s \in Sessions : Queried(s) =>
        IF local[s].user_input # <<>>
        THEN ExactAnswer(s) /\ Shown(s, "translation")
        ELSE local[s].result = None /\ Shown(s, "warning: enter a phrase")

\* C11 witness: a forward query that is a proper prefix of a stored key,
\* and no key itself, was answered with the not-found message.
C11_Witness ==
    \E s \in Sessions :
        /\ Queried(s) /\ local[s].direction = Forward
        /\ local[s].user_input # <<>>
        /\ local[s].result = NotFoundForward
        /\ \E k \in Keys(phrases_db[s]) :
               /\ Len(k) > Len(local[s].user_input)
               /\ SubSeq(k, 1, Len(local[s].user_input)) = local[s].user_input

\* A step in which session s loads its databases and goes on.
Loads(s) == pc[s] = "idle" /\ pc'[s] = "main"

\* C12 (as claimed): a load that finds no phrase file yields a starter
\* mapping of at least one pair and has written it to the file.
C12_SeededOnLoad ==
    [][\A s \in Sessions :
         (Loads(s) /\ ~phrases_file.exists)
             => /\ Len(phrases_db'[s]) >= 1
                /\ phrases_file'.exists /\ phrases_file'.valid
                /\ phrases_file'.data = phrases_db'[s]
      ]_vars

\* C12 (amended): a load that finds no phrase file yields the empty
\* mapping and leaves the file absent.
C12_EmptyOnMissingFile ==
    [][\A s \in Sessions :
         (Loads(s) /\ ~phrases_file.exists)
             => /\ phrases_db'[s] = <<>>
                /\ ~phrases_file'.exists
      ]_vars

\* C12 witness: a run loaded the empty mapping from a missing file.
C12_Witness ==
    \E s \in Sessions :
        pc[s] = "main" /\ ~phrases_file.exists /\ phrases_db[s] = <<>>

\* C13 (as claimed): no run ends in an exception of load_database, and a
\* run that loaded a phrase file that exists but is unreadable or corrupt
\* holds the empty mapping.
C13_FailOpenLoad ==
    \A s \in Sessions :
        /\ ~Shown(s, UncaughtException)
        /\ (pc[s] = "main" /\ phrases_file.exists /\ ~phrases_file.valid)
               => phrases_db[s] = <<>>

\* C13, the part the code keeps: a phrase file that reads but does not
\* parse as JSON loads as the empty mapping.
C13_CorruptJsonLoadsEmpty ==
    [][\A s \in Sessions :
         (pc[s] = "idle" /\ pc'[s] # pc[s]
            /\ phrases_file = CorruptFile /\ ~load_raises(contributions_file))
             => pc'[s] = "main" /\ phrases_db'[s] = <<>>
      ]_vars

\* A step in which session s runs pull_and_merge.
Merges(s) == pc[s] = "main" /\ app_mode'[s] = "Sync with Remote"

\* C14: pull_and_merge leaves every entry the local mapping held before
\* the call in place with its value, and inserts only keys that were absent:
\* the old mapping is a prefix of the new one and no key occurs twice.
C14_MergeNeverOverwrites ==
    [][\A s \in Sessions :
         Merges(s) =>
            LET old == phrases_db[s]
                new == phrases_db'[s]
            IN  /\ Len(new) >= Len(old)
                /\ SubSeq(new, 1, Len(old)) = old
                /\ \A k \in Keys(old) : DictGet(new, k, None) = DictGet(old, k, None)
                /\ \A i, j \in 1..Len(new) : new[i][1] = new[j][1] => i = j
      ]_vars

\* C14 witness: a one-row pull succeeded although the local mapping holds
\* the row's key with another value.
C14_Witness ==
    \E s \in Sessions :
        /\ pc[s] = "idle" /\ app_mode[s] = "Sync with Remote"
        /\ local[s].merge_ok /\ Len(local[s].remote_rows) = 1
        /\ LET row == local[s].remote_rows[1]
           IN  /\ lower(row[1]) \in Keys(phrases_db[s])
               /\ DictGet(phrases_db[s], lower(row[1]), None) # row[2]

\* C15: each Save rewrites the contribution log as the log it loaded plus
\* exactly one record, stored under the identifier count + 1, which was not
\* a key before; every earlier record keeps its identifier and content.
\* The identifiers of the log are always 1..count.
C15_AppendOnly ==
    /\ [][\A s \in Sessions :
            (pc[s] = "save_contributions" /\ pc'[s] # pc[s]) =>
               LET old == contributions_file.data
                   new == contributions_file'.data
               IN  /\ Len(new) = Len(old) + 1
                   /\ new[Len(new)][1] = Len(old) + 1
                   /\ new[Len(new)][1] \notin Keys(old)
                   /\ \A i \in 1..Len(old) : new[i] = old[i]
         ]_vars
    /\ [](\A i \in 1..Len(contributions_file.data) :
              contributions_file.data[i][1] = i)

\* C15 witness: a second Save has just rewritten the log, which now holds
\* the records 1 and 2.
C15_Witness ==
    \E s \in Sessions :
        /\ pc[s] = "saved"
        /\ Len(contributions_file.data) = 2
        /\ contributions_file.data[2][1] = 2

\* C16 (as claimed): distinct records of the contribution log never
\* reference the same audio file path.
C16_DistinctAudioFiles ==
    \A i, j \in 1..Len(contributions_file.data) :
        i # j => contributions_file.data[i][2].audio_file
                     # contributions_file.data[j][2].audio_file

\* C18 (as claimed): the temporary recording of transcribe_audio never
\* outlives the call.
C18_NoTempLeft ==
    \A s \in Sessions :
        pc[s] # "transcribing" => TempPath \notin DOMAIN audio_dir

\* The positions of the forward mapping d whose value lowercases to v.
Colliding(d, v) == {i \in 1..Len(d) : lower(d[i][2]) = v}
LastOf(S) == CHOOSE i \in S : \A j \in S : j <= i

\* C17 (as claimed): when a contribution has just been written and its
\* value collides with that of another entry, the reverse index holds one
\* entry for the lowercased value and it points to the key just written.
\* Stated for mappings whose keys and values are all non-empty.
C17_LastWriteWins ==
    \A s \in Sessions :
        pc[s] = "thank" =>
           LET d == phrases_db[s]
               v == lower(local[s].english_value)
               index == english_to_local_db(d)
           IN  (/\ \A i \in 1..Len(d) : d[i][1] # <<>> /\ d[i][2] # <<>>
                /\ Cardinality(Colliding(d, v)) >= 2) =>
                  /\ Cardinality({n \in 1..Len(index) : index[n][1] = v}) = 1
                  /\ DictGet(index, v, None) = local[s].local_key

\* C17 (amended): the reverse index holds exactly one entry for every
\* lowercased value of the forward mapping, and it points to the key of the
\* colliding entry that is last in the mapping's order; a reverse query for
\* the value is answered with that key; and a contribution leaves every
\* entry of another key in the forward mapping.
C17_LastInOrderWins ==
    /\ [](\A s \in Sessions :
            LET d == phrases_db[s]
                index == english_to_local_db(d)
            IN  /\ \A i \in 1..Len(d) :
                      LET v == lower(d[i][2])
                      IN  /\ Cardinality({n \in 1..Len(index) :
                                             index[n][1] = v}) = 1
                          /\ DictGet(index, v, None)
                                 = d[LastOf(Colliding(d, v))][1]
                /\ (Queried(s) /\ local[s].direction = Reverse
                       /\ local[s].user_input # <<>>) =>
                      LET q == lower(strip(local[s].user_input))
                      IN  Colliding(d, q) # {} =>
                             local[s].result = d[LastOf(Colliding(d, q))][1])
    /\ [][\A s \in Sessions :
            (pc[s] = "main" /\ pc'[s] = "save_phrases") =>
               \A i \in 1..Len(phrases_db[s]) :
                  phrases_db[s][i][1] # local'[s].local_key
                     => phrases_db'[s][i] = phrases_db[s][i]
         ]_vars

\* C17 witness: a reverse query was answered from a mapping in which two
\* entries collide on the queried value.
C17_Witness ==
    \E s \in Sessions :
        /\ Queried(s) /\ local[s].direction = Reverse
        /\ local[s].user_input # <<>>
        /\ Cardinality(Colliding(phrases_db[s],
                                 lower(strip(local[s].user_input)))) >= 2
        /\ local[s].result \in Keys(phrases_db[s])
====
